---------------------------- MODULE Spec2Model ----------------------------
(***************************************************************************)
(* gamemath: the LU-decomposition linear solver of src/decomposition.rs    *)
(* (trait LU: get_pivot_permutation, decompose_lu, solve_with_L,           *)
(* solve_with_U, lu_solve) over the crate's fixed-size matrices, followed  *)
(* by Mat4::inverted (src/mat4.rs), Curve::lerp (src/curve.rs) and lerp    *)
(* (src/lib.rs).                                                           *)
(*                                                                         *)
(* Scalars.  The code computes in f32 and so does the model.  A scalar is  *)
(* a pair <<m, e>>: the finite value m * 2^e with m odd (so every value    *)
(* has one pair) and at most 24 bits, <<0, 0>> for 0.0, <<0, -1>> for      *)
(* -0.0, <<1, 128>> for +inf, <<-1, 128>> for -inf and <<0, 128>> for      *)
(* NaN.  Every operation returns the f32 nearest to its exact result, ties *)
(* to even, with overflow to infinity, the subnormal range and IEEE-754's  *)
(* rules for the signed zeros and the non-finite values.  The exact        *)
(* operations (XAdd, XMul, XLt) are those of the properties: they state    *)
(* what a result is in exact arithmetic.                                   *)
(*                                                                         *)
(* Matrices are functions [0..n-1 -> [0..n-1 -> scalar]], vectors are      *)
(* functions [0..n-1 -> scalar], the permutation is a function             *)
(* [0..n-1 -> 0..n-1]: all indices are the code's 0-based indices.         *)
(***************************************************************************)
EXTENDS Integers, FiniteSets, Sequences, TLC

(***************************************************************************)
(* Bounds of the model.                                                    *)
(***************************************************************************)
\* matrix entries of the inputs range over -1 .. MaxEntry
MaxEntry == 1
\* components of the right-hand side vectors range over -1 .. MaxRhs
MaxRhs == 1

(***************************************************************************)
(* Scalar arithmetic: the f32 operators of the code.                       *)
(***************************************************************************)
\* the number of significant bits of an f32
MantissaBits == 24
\* the exponent field of the non-finite values: every finite f32 is below 2^ExpInf
ExpInf == 128
\* the exponent of the least positive f32, 2^-149
MinExp == -149

IAbs(k) == IF k < 0 THEN -k ELSE k

ISign(k) == IF k < 0 THEN -1 ELSE IF k = 0 THEN 0 ELSE 1

Pow2(k) == 2 ^ k

\* the number of bits of the natural number a
RECURSIVE BitLen(_)
BitLen(a) ==
  IF a >= 256 THEN 8 + BitLen(a \div 256)
  ELSE IF a >= 16 THEN 4 + BitLen(a \div 16)
  ELSE IF a >= 4 THEN 2 + BitLen(a \div 4)
  ELSE IF a >= 2 THEN 2
  ELSE a

Zero == <<0, 0>>
NegZero == <<0, -1>>
PosInf == <<1, ExpInf>>
NegInf == <<-1, ExpInf>>
NaN == <<0, ExpInf>>

IsNaN(a) == a = NaN
IsInf(a) == a[2] = ExpInf /\ a[1] # 0
IsFinite(a) == a[2] # ExpInf
IsZero(a) == a[1] = 0 /\ a[2] # ExpInf

\* the sign bit of a value that is not NaN: -1 when set, 1 when clear
SignOf(a) == IF a[1] < 0 \/ a = NegZero THEN -1 ELSE 1

SignedZero(s) == IF s < 0 THEN NegZero ELSE Zero

SignedInf(s) == IF s < 0 THEN NegInf ELSE PosInf

\* the pair <<m, e>> with m odd that stands for s * a * 2^e, a > 0
RECURSIVE Canon(_, _, _)
Canon(s, a, e) ==
  IF a % 2 = 1 THEN <<s * a, e>>
  ELSE IF a % 256 = 0 THEN Canon(s, a \div 256, e + 8)
  ELSE IF a % 16 = 0 THEN Canon(s, a \div 16, e + 4)
  ELSE Canon(s, a \div 2, e + 1)

\* the f32 s * a * 2^e, where a has at most MantissaBits bits and e >= MinExp:
\* infinite when it is not below 2^ExpInf
Finite(s, a, e) ==
  IF a = 0 THEN SignedZero(s)
  ELSE IF e > ExpInf - MantissaBits - 1 /\ BitLen(a) + e > ExpInf THEN SignedInf(s)
  ELSE Canon(s, a, e)

\* the f32 nearest to s * (a + f) * 2^e, ties to even, where a is a natural number
\* and 0 < f < 1 when sticky, f = 0 otherwise (a has at least MantissaBits + 2 bits
\* when sticky).  The last bit kept has exponent t: MantissaBits bits are kept, fewer
\* below the normal range.
RoundF32(s, a, e, sticky) ==
  LET len == BitLen(a)
      t == IF e + len - MantissaBits > MinExp THEN e + len - MantissaBits ELSE MinExp
      shift == t - e
  IN  IF (e >= MinExp /\ a < Pow2(MantissaBits)) \/ shift <= 0 THEN Finite(s, a, e)
      ELSE IF shift > 31 THEN SignedZero(s)
      ELSE LET q == IF shift = 31 THEN 0 ELSE a \div Pow2(shift)
               r == IF shift = 31 THEN a ELSE a % Pow2(shift)
               half == Pow2(shift - 1)
               up == r > half \/ (r = half /\ (sticky \/ q % 2 = 1))
           IN  Finite(s, IF up THEN q + 1 ELSE q, t)

\* the sum of two finite nonzero values
AddFinite(a, c) ==
  LET hi == IF a[2] >= c[2] THEN a ELSE c
      lo == IF a[2] >= c[2] THEN c ELSE a
      d == hi[2] - lo[2]
      lenh == BitLen(IAbs(hi[1]))
  IN  IF d <= 30 - MantissaBits \/ lenh + d <= 30
      THEN LET sum == hi[1] * Pow2(d) + lo[1]
           IN  IF sum = 0 THEN Zero ELSE RoundF32(ISign(sum), IAbs(sum), lo[2], FALSE)
      ELSE \* lo lies below the last of 30 bits of hi: it is shifted out, its last
           \* bit (lo[1] is odd) leaves a remainder
           LET k == 30 - lenh
               sh == d - k
               m1 == IAbs(hi[1]) * Pow2(k)
               m2 == IF sh > 30 THEN 0 ELSE IAbs(lo[1]) \div Pow2(sh)
           IN  IF ISign(hi[1]) = ISign(lo[1])
               THEN RoundF32(ISign(hi[1]), m1 + m2, hi[2] - k, TRUE)
               ELSE RoundF32(ISign(hi[1]), m1 - m2 - 1, hi[2] - k, TRUE)

\* f32 + f32
FAdd(a, c) ==
  IF IsNaN(a) \/ IsNaN(c) THEN NaN
  ELSE IF IsInf(a) THEN (IF IsInf(c) /\ c # a THEN NaN ELSE a)
  ELSE IF IsInf(c) THEN c
  ELSE IF IsZero(a) THEN (IF IsZero(c) THEN (IF a = c THEN a ELSE Zero) ELSE c)
  ELSE IF IsZero(c) THEN a
  ELSE AddFinite(a, c)

\* unary minus
FNeg(a) ==
  IF IsNaN(a) THEN NaN
  ELSE IF IsZero(a) THEN SignedZero(-SignOf(a))
  ELSE <<-a[1], a[2]>>

\* f32 - f32
FSub(a, c) == FAdd(a, FNeg(c))

\* the product of two finite nonzero values
MulFinite(a, c) ==
  LET s == ISign(a[1]) * ISign(c[1])
      ma == IAbs(a[1])
      mc == IAbs(c[1])
      e == a[2] + c[2]
  IN  IF ma < Pow2(31 - MantissaBits) \/ mc < Pow2(31 - MantissaBits)
           \/ BitLen(ma) + BitLen(mc) <= 31
      THEN RoundF32(s, ma * mc, e, FALSE)
      ELSE \* the product in two halves of MantissaBits bits, hi and lo
           LET half == Pow2(MantissaBits \div 2)
               whole == Pow2(MantissaBits)
               a1 == ma \div half
               a0 == ma % half
               c1 == mc \div half
               c0 == mc % half
               mid == a1 * c0 + a0 * c1
               low == a0 * c0 + (mid % half) * half
               lo == low % whole
               hi == a1 * c1 + mid \div half + low \div whole
               k == 30 - BitLen(hi)
               cut == Pow2(MantissaBits - k)
           IN  RoundF32(s, hi * Pow2(k) + lo \div cut, e + MantissaBits - k, lo % cut # 0)

\* f32 * f32
FMul(a, c) ==
  IF IsNaN(a) \/ IsNaN(c) THEN NaN
  ELSE IF IsInf(a) \/ IsInf(c)
       THEN (IF IsZero(a) \/ IsZero(c) THEN NaN ELSE SignedInf(SignOf(a) * SignOf(c)))
  ELSE IF IsZero(a) \/ IsZero(c) THEN SignedZero(SignOf(a) * SignOf(c))
  ELSE MulFinite(a, c)

\* the quotient q + r / mc (times 2^e) carried on until q has MantissaBits + 2 bits
RECURSIVE DivLoop(_, _, _, _, _)
DivLoop(s, q, r, mc, e) ==
  IF q >= Pow2(MantissaBits + 1) THEN RoundF32(s, q, e, r # 0)
  ELSE DivLoop(s, q * 64 + (r * 64) \div mc, (r * 64) % mc, mc, e - 6)

\* the quotient of two finite nonzero values
DivFinite(a, c) ==
  LET s == ISign(a[1]) * ISign(c[1])
      ma == IAbs(a[1])
      mc == IAbs(c[1])
      e == a[2] - c[2]
  IN  IF mc = 1 THEN RoundF32(s, ma, e, FALSE)
      ELSE DivLoop(s, ma \div mc, ma % mc, mc, e)

\* f32 / f32
FDiv(a, c) ==
  IF IsNaN(a) \/ IsNaN(c) THEN NaN
  ELSE IF IsInf(a) THEN (IF IsInf(c) THEN NaN ELSE SignedInf(SignOf(a) * SignOf(c)))
  ELSE IF IsInf(c) THEN SignedZero(SignOf(a) * SignOf(c))
  ELSE IF IsZero(c)
       THEN (IF IsZero(a) THEN NaN ELSE SignedInf(SignOf(a) * SignOf(c)))
  ELSE IF IsZero(a) THEN SignedZero(SignOf(a) * SignOf(c))
  ELSE DivFinite(a, c)

\* f32::abs
FAbs(a) == IF IsNaN(a) THEN NaN ELSE IF IsZero(a) THEN Zero ELSE <<IAbs(a[1]), a[2]>>

\* the position of the leading bit of a nonzero value that is not NaN
Top(a) == IF IsInf(a) THEN ExpInf + 1 ELSE BitLen(IAbs(a[1])) + a[2]

\* |a| < |c| for nonzero values that are not NaN
MagLt(a, c) ==
  IF a[2] = c[2] THEN IAbs(a[1]) < IAbs(c[1])
  ELSE LET ta == Top(a)
           tc == Top(c)
           e == IF a[2] < c[2] THEN a[2] ELSE c[2]
       IN  IF ta # tc THEN ta < tc
           ELSE IAbs(a[1]) * Pow2(a[2] - e) < IAbs(c[1]) * Pow2(c[2] - e)

\* f32 < f32 (false when either side is NaN; -0.0 and 0.0 are equal)
FLt(a, c) ==
  IF IsNaN(a) \/ IsNaN(c) THEN FALSE
  ELSE IF IsZero(a) THEN ~IsZero(c) /\ c[1] > 0
  ELSE IF IsZero(c) THEN a[1] < 0
  ELSE IF ISign(a[1]) # ISign(c[1]) THEN a[1] < 0
  ELSE IF a[1] > 0 THEN MagLt(a, c)
  ELSE MagLt(c, a)

\* f32 == f32 (false when either side is NaN; -0.0 and 0.0 are equal)
FEq(a, c) == ~IsNaN(a) /\ ~IsNaN(c) /\ (a = c \/ (IsZero(a) /\ IsZero(c)))

\* the f32 num / 2^k, for an integer num of at most MantissaBits bits
Dyadic(num, k) == IF num = 0 THEN Zero ELSE Canon(ISign(num), IAbs(num), -k)

\* i32::MAX, the largest integer of TLC as well
I32Max == 2147483647

\* i32::MIN
I32Min == -I32Max - 1

\* the number of bits of a u32 and of a usize
U32Bits == 32
UsizeBits == 64

\* i32 `as f32`: the nearest f32 (i32::MIN is -2^31, whose magnitude is no i32)
FromInt(k) ==
  IF k = 0 THEN Zero
  ELSE IF k = I32Min THEN <<-1, U32Bits - 1>>
  ELSE RoundF32(ISign(k), IAbs(k), 0, FALSE)

One == FromInt(1)

\* f32 != f32 (true when either side is NaN)
FNe(a, c) == ~FEq(a, c)

\* f32::min: the other operand when one is NaN; of two operands that compare
\* equal the first (they are the same value wherever the model calls it)
FMin(a, c) == IF IsNaN(a) THEN c ELSE IF IsNaN(c) THEN a ELSE IF FLt(c, a) THEN c ELSE a

\* f32::max: the other operand when one is NaN; of two operands that compare
\* equal the first (they are the same value wherever the model calls it)
FMax(a, c) == IF IsNaN(a) THEN c ELSE IF IsNaN(c) THEN a ELSE IF FLt(a, c) THEN c ELSE a

\* the integer part of |v| for a finite v, i32::MAX when it is not below 2^31
TruncI32(v) ==
  LET a == IAbs(v[1])
  IN  IF v[2] >= 0
      THEN (IF BitLen(a) + v[2] >= U32Bits THEN I32Max ELSE a * Pow2(v[2]))
      ELSE IF -v[2] >= U32Bits - 1 THEN 0
      ELSE a \div Pow2(-v[2])

\* f32 `as i32`: truncation toward zero, 0 for NaN, saturation at i32::MAX and
\* i32::MIN beyond them (the infinities included)
AsI32(v) ==
  IF IsNaN(v) THEN 0
  ELSE IF v[1] > 0 THEN (IF IsInf(v) THEN I32Max ELSE TruncI32(v))
  ELSE IF IsInf(v) \/ TruncI32(v) = I32Max THEN I32Min
  ELSE -TruncI32(v)

\* A u32 or a usize is a tuple of four limbs of LimbBits bits, the least
\* significant first: <<d0, d1, d2, d3>> is d0 + d1 * 2^16 + d2 * 2^32 + d3 * 2^48
\* (an integer above i32::MAX is no integer of TLC); a u32 is two limbs wide.
LimbBits == U32Bits \div 2

Limb == Pow2(LimbBits)

\* the u32 or usize of a natural number k <= i32::MAX
Unsigned(k) == <<k % Limb, k \div Limb, 0, 0>>

\* u32::MAX
U32Max == <<Limb - 1, Limb - 1, 0, 0>>

\* usize::MAX (of a 64-bit target)
UsizeMax == <<Limb - 1, Limb - 1, Limb - 1, Limb - 1>>

\* a u32 or usize that is at most i32::MAX, and the natural number it is
IsSmall(w) == w[4] = 0 /\ w[3] = 0 /\ w[2] < Pow2(LimbBits - 1)

NatOf(w) == w[2] * Limb + w[1]

\* limb j of the integer a * 2^e, for a natural number a below 2^MantissaBits
\* and e >= 0
LimbOf(a, e, j) ==
  LET sh == e - LimbBits * j
  IN  IF sh >= LimbBits THEN 0
      ELSE IF sh >= 0 THEN (a % Pow2(LimbBits - sh)) * Pow2(sh)
      ELSE IF -sh >= MantissaBits THEN 0
      ELSE (a \div Pow2(-sh)) % Limb

\* the integer part of a finite v > 0 as an unsigned integer of `bits` bits:
\* its largest value when v is not below 2^bits
TruncUnsigned(v, bits) ==
  IF v[2] < 0
  THEN Unsigned(IF -v[2] >= MantissaBits THEN 0 ELSE v[1] \div Pow2(-v[2]))
  ELSE IF BitLen(v[1]) + v[2] > bits
  THEN (IF bits = U32Bits THEN U32Max ELSE UsizeMax)
  ELSE <<LimbOf(v[1], v[2], 0), LimbOf(v[1], v[2], 1),
         LimbOf(v[1], v[2], 2), LimbOf(v[1], v[2], 3)>>

\* f32 `as usize`: truncation toward zero, 0 for NaN and for negative values,
\* saturation at usize::MAX
AsUsize(v) ==
  IF IsNaN(v) THEN Unsigned(0)
  ELSE IF v = PosInf THEN UsizeMax
  ELSE IF v[1] <= 0 THEN Unsigned(0)
  ELSE TruncUnsigned(v, UsizeBits)

\* f32 `as u32`: the same, saturation at u32::MAX
AsU32(v) ==
  IF IsNaN(v) THEN Unsigned(0)
  ELSE IF v = PosInf THEN U32Max
  ELSE IF v[1] <= 0 THEN Unsigned(0)
  ELSE TruncUnsigned(v, U32Bits)

\* bits 4j .. 4j + 3 of a u32 or usize
Nibble(w, j) == (w[j \div 4 + 1] \div Pow2(4 * (j % 4))) % 16

\* the f32 nearest to w, whose bits above nibble j are acc: the bits are taken
\* in from the top until acc has more than MantissaBits + 2 of them, the others
\* only tell on which side of a tie the value lies
RECURSIVE UnsignedRound(_, _, _)
UnsignedRound(w, j, acc) ==
  IF j < 0 THEN RoundF32(1, acc, 0, FALSE)
  ELSE IF acc >= Pow2(MantissaBits + 2)
  THEN RoundF32(1, acc, 4 * (j + 1), \E k \in 0 .. j : Nibble(w, k) # 0)
  ELSE UnsignedRound(w, j - 1, acc * 16 + Nibble(w, j))

\* u32 `as f32`, usize `as f32`: the nearest f32
UnsignedAsF32(w) == UnsignedRound(w, UsizeBits \div 4 - 1, 0)

\* a negative f32 that 1.0 absorbs: -2^-25 + 1.0 rounds to 1.0
NegTiny == Dyadic(-1, MantissaBits + 1)

\* the largest f32 less than 1.0
BelowOne == Dyadic(Pow2(MantissaBits) - 1, MantissaBits)

(***************************************************************************)
(* Exact arithmetic on the same pairs, for the properties: the results are *)
(* not rounded, so their m may be longer than an f32's (it must fit the    *)
(* integers of the checker).  -0.0 is 0.0 here, and a non-finite operand   *)
(* gives what f32 gives.                                                   *)
(***************************************************************************)
\* a + c
XAdd(a, c) ==
  IF ~IsFinite(a) \/ ~IsFinite(c) THEN FAdd(a, c)
  ELSE IF IsZero(a) THEN (IF IsZero(c) THEN Zero ELSE c)
  ELSE IF IsZero(c) THEN a
  ELSE LET e == IF a[2] < c[2] THEN a[2] ELSE c[2]
           sum == a[1] * Pow2(a[2] - e) + c[1] * Pow2(c[2] - e)
       IN  IF sum = 0 THEN Zero ELSE Canon(ISign(sum), IAbs(sum), e)

\* -a
XNeg(a) == IF IsZero(a) THEN Zero ELSE FNeg(a)

\* a - c
XSub(a, c) == XAdd(a, XNeg(c))

\* a . c
XMul(a, c) ==
  IF ~IsFinite(a) \/ ~IsFinite(c) THEN FMul(a, c)
  ELSE IF IsZero(a) \/ IsZero(c) THEN Zero
  ELSE <<a[1] * c[1], a[2] + c[2]>>

\* a < c, for finite a and c
XLt(a, c) == XSub(a, c)[1] < 0

\* |a|
XAbs(a) == IF IsZero(a) THEN Zero ELSE <<IAbs(a[1]), a[2]>>

\* a finite value that is a multiple of 2^-ShortBits and lies below 2^ShortBits:
\* sums of products of such values are computed without rounding
ShortBits == 6

Short(a) ==
  /\ IsFinite(a)
  /\ IsZero(a) \/ (a[2] >= -ShortBits /\ BitLen(IAbs(a[1])) + a[2] <= ShortBits)

(***************************************************************************)
(* Matrix and vector constructors.                                         *)
(***************************************************************************)
Idx(n) == 0 .. (n - 1)

\* mutant of DefaultMat: default() yields the zero matrix
DefaultMat_Zeroed(n) == [r \in Idx(n) |-> [c \in Idx(n) |-> Zero]]

\* Mat2::default(), Mat3::default(), Mat4::default(): the identity matrix
DefaultMat(n) == [r \in Idx(n) |-> [c \in Idx(n) |-> IF r = c THEN One ELSE Zero]]

\* Zero::zero(): the matrix filled with zeros
ZeroMat(n) == [r \in Idx(n) |-> [c \in Idx(n) |-> Zero]]

\* Vector::default(): every component is f32::default() = 0.0
DefaultVec(n) == [k \in Idx(n) |-> Zero]

\* Permute::permuted: u[i] = v[p[i]]
permuted(v, p) == [k \in DOMAIN v |-> v[p[k]]]

(***************************************************************************)
(* get_pivot_permutation                                                   *)
(***************************************************************************)
\* mutant of MaxPosLoop: the comparison is `<=`, a later equal entry replaces max_pos
RECURSIVE MaxPosLoop_Le(_, _, _, _, _)
MaxPosLoop_Le(A, n, i, j, max_pos) ==
  IF j >= n THEN max_pos
  ELSE MaxPosLoop_Le(A, n, i, j + 1,
                     IF ~FLt(FAbs(A[j][i]), FAbs(A[max_pos][i])) THEN j ELSE max_pos)

\* mutant of MaxPosLoop: the entries are compared without abs()
RECURSIVE MaxPosLoop_NoAbs(_, _, _, _, _)
MaxPosLoop_NoAbs(A, n, i, j, max_pos) ==
  IF j >= n THEN max_pos
  ELSE MaxPosLoop_NoAbs(A, n, i, j + 1, IF FLt(A[max_pos][i], A[j][i]) THEN j ELSE max_pos)

\* the inner loop `for j in (i + 1)..dimension()`, from j on, with the running max_pos
RECURSIVE MaxPosLoop(_, _, _, _, _)
MaxPosLoop(A, n, i, j, max_pos) ==
  IF j >= n THEN max_pos
  ELSE MaxPosLoop(A, n, i, j + 1,
                  IF FLt(FAbs(A[max_pos][i]), FAbs(A[j][i])) THEN j ELSE max_pos)

\* max_pos after the inner loop of column i
MaxPos(A, n, i) == MaxPosLoop(A, n, i, i + 1, i)

\* mutant of Swap: position i is overwritten and position j is left as it was
Swap_Overwrite(rp, i, j) == [rp EXCEPT ![i] = rp[j]]

\* Vec::swap
Swap(rp, i, j) == [rp EXCEPT ![i] = rp[j], ![j] = rp[i]]

\* mutant of PivotIter: the entries are compared through the permutation,
\* A[rp[max_pos]][i] against A[rp[j]][i]
RECURSIVE MaxPosLoop_ThroughPerm(_, _, _, _, _, _)
MaxPosLoop_ThroughPerm(A, n, rp, i, j, max_pos) ==
  IF j >= n THEN max_pos
  ELSE MaxPosLoop_ThroughPerm(A, n, rp, i, j + 1,
         IF FLt(FAbs(A[rp[max_pos]][i]), FAbs(A[rp[j]][i])) THEN j ELSE max_pos)

PivotIter_ThroughPerm(A, n, rp, i) ==
  LET max_pos == MaxPosLoop_ThroughPerm(A, n, rp, i, i + 1, i)
  IN  IF max_pos # i THEN Swap(rp, i, max_pos) ELSE rp

\* mutant of PivotIter: max_pos is swapped with position 0, not with position i
PivotIter_SwapFirst(A, n, rp, i) ==
  LET max_pos == MaxPos(A, n, i)
  IN  IF max_pos # i THEN Swap(rp, 0, max_pos) ELSE rp

\* mutant of PivotIter: no row is ever swapped
PivotIter_NoSwap(A, n, rp, i) == rp

\* one iteration of the column loop: rows_p after column i
PivotIter(A, n, rp, i) ==
  LET max_pos == MaxPos(A, n, i)
  IN  IF max_pos # i THEN Swap(rp, i, max_pos) ELSE rp

\* mutant of IdentityPerm: the rows are numbered from 1, (1..=dimension()).collect()
IdentityPerm_OneBased(n) == [k \in Idx(n) |-> k + 1]

\* (0..dimension()).collect()
IdentityPerm(n) == [k \in Idx(n) |-> k]

RECURSIVE PivotLoop(_, _, _, _)
PivotLoop(A, n, rp, i) ==
  IF i >= n THEN rp ELSE PivotLoop(A, n, PivotIter(A, n, rp, i), i + 1)

get_pivot_permutation(A, n) == PivotLoop(A, n, IdentityPerm(n), 0)

(***************************************************************************)
(* decompose_lu                                                            *)
(***************************************************************************)
\* `sum` after `for i in 0..k { sum += U[i][col] * L[row][i] }`, from sum = 0.0
RECURSIVE SumUL(_, _, _, _, _)
SumUL(Um, Lm, row, col, k) ==
  IF k = 0 THEN Zero
  ELSE FAdd(SumUL(Um, Lm, row, col, k - 1), FMul(Um[k - 1][col], Lm[row][k - 1]))

\* mutant of FillU: row `row` of A is read, not row p[row]
RECURSIVE FillU_Unpermuted(_, _, _, _, _, _)
FillU_Unpermuted(A, p, Lm, Um, col, row) ==
  IF row > col THEN Um
  ELSE FillU_Unpermuted(A, p, Lm,
             [Um EXCEPT ![row][col] = FSub(A[row][col], SumUL(Um, Lm, row, col, row))],
             col, row + 1)

\* mutant of FillU: the loop runs over every row, `for row in 0..dimension()`
RECURSIVE FillU_AllRows(_, _, _, _, _, _)
FillU_AllRows(A, p, Lm, Um, col, row) ==
  IF row \notin DOMAIN Um THEN Um
  ELSE FillU_AllRows(A, p, Lm,
             [Um EXCEPT ![row][col] = FSub(A[p[row]][col], SumUL(Um, Lm, row, col, row))],
             col, row + 1)

\* the loop `for row in 0..col + 1`, from row on: U after it
RECURSIVE FillU(_, _, _, _, _, _)
FillU(A, p, Lm, Um, col, row) ==
  IF row > col THEN Um
  ELSE FillU(A, p, Lm,
             [Um EXCEPT ![row][col] = FSub(A[p[row]][col], SumUL(Um, Lm, row, col, row))],
             col, row + 1)

\* mutant of FillL: the entry of L is not divided by U[col][col]
RECURSIVE FillL_NoDiv(_, _, _, _, _, _, _)
FillL_NoDiv(A, n, p, Lm, Um, col, row) ==
  IF row >= n THEN Lm
  ELSE FillL_NoDiv(A, n, p,
             [Lm EXCEPT ![row][col] = FSub(A[p[row]][col], SumUL(Um, Lm, row, col, col))],
             Um, col, row + 1)

\* the loop `for row in (col + 1)..dimension()`, from row on: L after it
RECURSIVE FillL(_, _, _, _, _, _, _)
FillL(A, n, p, Lm, Um, col, row) ==
  IF row >= n THEN Lm
  ELSE FillL(A, n, p,
             [Lm EXCEPT ![row][col] =
                FDiv(FSub(A[p[row]][col], SumUL(Um, Lm, row, col, col)), Um[col][col])],
             Um, col, row + 1)

\* mutant of FactorIter: column col of L is filled before column col of U
FactorIter_LFirst(A, n, p, Lm, Um, col) ==
  LET L1 == FillL(A, n, p, Lm, Um, col, col + 1)
      U1 == FillU(A, p, L1, Um, col, 0)
  IN  <<L1, U1>>

\* mutant of FactorIter: the L loop starts at the diagonal, `for row in col..dimension()`
FactorIter_LFromDiagonal(A, n, p, Lm, Um, col) ==
  LET U1 == FillU(A, p, Lm, Um, col, 0)
      L1 == FillL(A, n, p, Lm, U1, col, col)
  IN  <<L1, U1>>

\* one iteration of `for col in 0..dimension()`: <<L, U>> after column col
FactorIter(A, n, p, Lm, Um, col) ==
  LET U1 == FillU(A, p, Lm, Um, col, 0)
      L1 == FillL(A, n, p, Lm, U1, col, col + 1)
  IN  <<L1, U1>>

RECURSIVE FactorLoop(_, _, _, _, _, _)
FactorLoop(A, n, p, Lm, Um, col) ==
  IF col >= n THEN <<Lm, Um>>
  ELSE LET LU1 == FactorIter(A, n, p, Lm, Um, col)
       IN  FactorLoop(A, n, p, LU1[1], LU1[2], col + 1)

\* decompose_lu: <<L, U, p>>
decompose_lu(A, n) ==
  LET p == get_pivot_permutation(A, n)
      LU1 == FactorLoop(A, n, p, DefaultMat(n), ZeroMat(n), 0)
  IN  <<LU1[1], LU1[2], p>>

(***************************************************************************)
(* solve_with_L, solve_with_U, lu_solve                                    *)
(***************************************************************************)
\* `sum` after `for j in 0..k { sum += y[j] * L[i][j] }`
RECURSIVE SumL(_, _, _, _)
SumL(Lm, yv, i, k) ==
  IF k = 0 THEN Zero
  ELSE FAdd(SumL(Lm, yv, i, k - 1), FMul(yv[k - 1], Lm[i][k - 1]))

\* mutant of ForwardIter: the sum is taken over b[j] * L[i][j], not y[j] * L[i][j]
ForwardIter_SumB(Lm, bv, yv, i) == [yv EXCEPT ![i] = FSub(bv[i], SumL(Lm, bv, i, i))]

\* mutant of ForwardIter: the sum over the earlier components is left out
ForwardIter_NoSum(Lm, bv, yv, i) == [yv EXCEPT ![i] = bv[i]]

\* mutant of ForwardIter: the division by L[i][i] is carried out
ForwardIter_DivDiag(Lm, bv, yv, i) ==
  [yv EXCEPT ![i] = FDiv(FSub(bv[i], SumL(Lm, yv, i, i)), Lm[i][i])]

\* one iteration of solve_with_L's loop: y after row i
ForwardIter(Lm, bv, yv, i) == [yv EXCEPT ![i] = FSub(bv[i], SumL(Lm, yv, i, i))]

RECURSIVE ForwardLoop(_, _, _, _, _)
ForwardLoop(Lm, n, bv, yv, i) ==
  IF i >= n THEN yv ELSE ForwardLoop(Lm, n, bv, ForwardIter(Lm, bv, yv, i), i + 1)

solve_with_L(Lm, n, bv) == ForwardLoop(Lm, n, bv, DefaultVec(n), 0)

\* `sum` after `for j in i + 1..k { sum += x[j] * U[i][j] }`
RECURSIVE SumU(_, _, _, _)
SumU(Um, xv, i, k) ==
  IF k <= i + 1 THEN Zero
  ELSE FAdd(SumU(Um, xv, i, k - 1), FMul(xv[k - 1], Um[i][k - 1]))

\* mutant of BackwardIter: no division by the diagonal entry
BackwardIter_NoDiv(Um, n, yv, xv, i) ==
  [xv EXCEPT ![i] = FSub(yv[i], SumU(Um, xv, i, n))]

\* mutant of BackwardIter: a zero diagonal entry is skipped, x[i] stays 0.0
BackwardIter_GuardZero(Um, n, yv, xv, i) ==
  IF IsZero(Um[i][i]) THEN xv
  ELSE [xv EXCEPT ![i] = FDiv(FSub(yv[i], SumU(Um, xv, i, n)), Um[i][i])]

\* one iteration of solve_with_U's loop: x after row i
BackwardIter(Um, n, yv, xv, i) ==
  [xv EXCEPT ![i] = FDiv(FSub(yv[i], SumU(Um, xv, i, n)), Um[i][i])]

\* `for i in (0..dimension()).rev()`, from i down
RECURSIVE BackwardLoop(_, _, _, _, _)
BackwardLoop(Um, n, yv, xv, i) ==
  IF i < 0 THEN xv ELSE BackwardLoop(Um, n, yv, BackwardIter(Um, n, yv, xv, i), i - 1)

solve_with_U(Um, n, yv) == BackwardLoop(Um, n, yv, DefaultVec(n), n - 1)

lu_solve(A, n, bv) ==
  LET d == decompose_lu(A, n)
      yv == solve_with_L(d[1], n, permuted(bv, d[3]))
  IN  solve_with_U(d[2], n, yv)

(***************************************************************************)
(* The calls of the trait as a state machine.  A behaviour is one call of  *)
(* an entry point, run one loop iteration at a time: Spec is a call of     *)
(* lu_solve, SpecFactor a call of decompose_lu, SpecTriangular a direct    *)
(* call of solve_with_L or solve_with_U.                                   *)
(***************************************************************************)
VARIABLES
  call,    \* the entry point that was called
  n,       \* Self::dimension()
  self,    \* the matrix A of decompose_lu / lu_solve
  b,       \* the argument b of lu_solve
  rows_p,  \* rows_p of get_pivot_permutation, then p of decompose_lu
  L,       \* L of decompose_lu / solve_with_L
  U,       \* U of decompose_lu / solve_with_U
  pb,      \* the argument b of solve_with_L (b.permuted(&p) in lu_solve)
  y,       \* y of solve_with_L, then the argument y of solve_with_U
  x,       \* x of solve_with_U
  pc,      \* the loop that runs next, "done" after the return
  i,       \* the index of that loop's next iteration (i, col)
  args,    \* the arguments of a call of Mat4::inverted, Curve::lerp or lerp
  ret      \* the value that call returned

vars == <<call, n, self, b, rows_p, L, U, pb, y, x, pc, i, args, ret>>

\* the value of args and ret where no call uses them
None == <<>>

\* the dimensions of the matrix types the model instantiates the trait for
Dims == {2, 3}

\* the scalars inputs are drawn from
Entries == {FromInt(k) : k \in -1 .. MaxEntry}
NonNegEntries == {FromInt(k) : k \in 0 .. MaxEntry}
RhsEntries == {FromInt(k) : k \in -1 .. MaxRhs}

Matrices(d) == [Idx(d) -> [Idx(d) -> Entries]]
Vectors(d) == [Idx(d) -> RhsEntries]

\* the matrix and the right-hand side of the doctests of decomposition.rs
DocMatrix ==
  [r \in Idx(3) |->
     [c \in Idx(3) |-> FromInt((<<<<1, 3, 5>>, <<2, 4, 7>>, <<1, 1, 0>>>>)[r + 1][c + 1])]]
DocRhs == [k \in Idx(3) |-> FromInt((<<5, 6, 10>>)[k + 1])]

\* the vector of the doctest of Permute::permuted
DocVec == [k \in Idx(3) |-> FromInt((<<9, 12, 20>>)[k + 1])]

\* a matrix and a right-hand side whose quotients are rounded: the pivot is 3.0
ThirdsMatrix == [r \in Idx(2) |-> [c \in Idx(2) |-> FromInt(2 * r + c + 1)]]
ThirdsRhs == [k \in Idx(2) |-> FromInt(k + 5)]

\* an integer whose square does not fit the 24 bits of an f32: 2^12 + 1
Rough == FromInt(Pow2(MantissaBits \div 2) + 1)

\* a unit lower-triangular matrix and a vector whose product is rounded
RoughLower == [r \in Idx(2) |-> [c \in Idx(2) |->
                 IF r = c THEN One ELSE IF r > c THEN Rough ELSE Zero]]
RoughRhs == [k \in Idx(2) |-> IF k = 0 THEN Rough ELSE Zero]

\* an upper-triangular matrix whose diagonal holds 3.0
ThirdsUpper == [r \in Idx(2) |-> [c \in Idx(2) |->
                  IF r # c THEN Zero ELSE IF r = 0 THEN FromInt(3) ELSE One]]

\* a full-rank matrix whose second pivot is a rounding error: 21 * fl(1/7) rounds
\* to 3 + 2^-22, so U[1][1] = -2^-22 (the selector looks at the original rows and
\* keeps it)
TinyPivotMatrix ==
  [r \in Idx(3) |->
     [c \in Idx(3) |-> FromInt((<<<<7, 21, 0>>, <<1, 3, 6>>, <<1, 0, 1>>>>)[r + 1][c + 1])]]

\* inputs of decompose_lu: every matrix over Entries, the doctest's, ThirdsMatrix
\* and TinyPivotMatrix
FactorInputs(d) ==
  Matrices(d) \cup (IF d = 3 THEN {DocMatrix, TinyPivotMatrix} ELSE {ThirdsMatrix})

\* inputs of lu_solve: the matrices A (every 2x2 matrix over Entries, every 3x3
\* matrix over NonNegEntries, the doctest's, and a 2x2 matrix whose quotient 1/3
\* is rounded) ...
SolveMatrices(d) ==
  IF d = 2 THEN Matrices(d) \cup {ThirdsMatrix}
  ELSE [Idx(d) -> [Idx(d) -> NonNegEntries]] \cup {DocMatrix}

\* ... and the vectors b: the multiples 0 .. MaxRhs of the unit vectors, the all-ones vector
\* and the doctests' (for ThirdsMatrix, a vector that gives a rounded solution)
SolveRhs(d) ==
  {[k \in Idx(d) |-> IF k = j THEN FromInt(e) ELSE Zero] : j \in Idx(d), e \in 0 .. MaxRhs}
    \cup {[k \in Idx(d) |-> One]}
    \cup (IF d = 3 THEN {DocRhs, DocVec} ELSE {ThirdsRhs})

\* inputs of a direct call of solve_with_L: unit lower-triangular matrices
LowerInputs(d) ==
  {M \in Matrices(d) : \A r, c \in Idx(d) : /\ (r = c => M[r][c] = One)
                                            /\ (r < c => M[r][c] = Zero)}
    \cup (IF d = 2 THEN {RoughLower} ELSE {})

\* inputs of a direct call of solve_with_U: upper-triangular matrices
UpperInputs(d) ==
  {M \in Matrices(d) : \A r, c \in Idx(d) : r > c => M[r][c] = Zero}
    \cup (IF d = 2 THEN {ThirdsUpper} ELSE {})

\* the vectors of a direct call of a triangular solver
TriangularRhs(d) == Vectors(d) \cup (IF d = 2 THEN {RoughRhs} ELSE {})

\* what every call starts from: rows_p = (0..dimension()).collect(), and L, U, y, x
\* as their constructors make them (a call's inputs replace some of them)
Fresh ==
  /\ n \in Dims
  /\ rows_p = IdentityPerm(n)
  /\ x = DefaultVec(n)
  /\ args = None /\ ret = None

\* a call of lu_solve(&self, b)
Init ==
  /\ Fresh
  /\ call = "lu_solve"
  /\ self \in SolveMatrices(n)
  /\ b \in SolveRhs(n)
  /\ L = DefaultMat(n) /\ U = ZeroMat(n)
  /\ pb = DefaultVec(n) /\ y = DefaultVec(n)
  /\ pc = "pivot" /\ i = 0

\* a call of decompose_lu(&self)
InitFactor ==
  /\ Fresh
  /\ call = "decompose_lu"
  /\ self \in FactorInputs(n)
  /\ b = DefaultVec(n)
  /\ L = DefaultMat(n) /\ U = ZeroMat(n)
  /\ pb = DefaultVec(n) /\ y = DefaultVec(n)
  /\ pc = "pivot" /\ i = 0

\* a call of solve_with_L(L, b) or of solve_with_U(U, y)
InitTriangular ==
  /\ Fresh
  /\ self = ZeroMat(n) /\ b = DefaultVec(n)
  /\ \/ /\ call = "solve_with_L"
        /\ L \in LowerInputs(n) /\ U = ZeroMat(n)
        /\ pb \in TriangularRhs(n) /\ y = DefaultVec(n)
        /\ pc = "forward" /\ i = 0
     \/ /\ call = "solve_with_U"
        /\ L = DefaultMat(n) /\ U \in UpperInputs(n)
        /\ pb = DefaultVec(n) /\ y \in TriangularRhs(n)
        /\ pc = "backward" /\ i = n - 1

\* get_pivot_permutation: one iteration of `for i in 0..Self::dimension()`
PivotStep ==
  /\ pc = "pivot"
  /\ i < n
  /\ rows_p' = PivotIter(self, n, rows_p, i)
  /\ IF i + 1 < n THEN pc' = "pivot" /\ i' = i + 1
                  ELSE pc' = "factor" /\ i' = 0
  /\ UNCHANGED <<call, n, self, b, L, U, pb, y, x, args, ret>>

\* mutant of FactorStep: lu_solve goes from the factorization straight to solve_with_L
FactorStep_SkipPermute ==
  /\ pc = "factor"
  /\ i < n
  /\ LET LU1 == FactorIter(self, n, rows_p, L, U, i)
     IN  L' = LU1[1] /\ U' = LU1[2]
  /\ IF i + 1 < n THEN pc' = "factor" /\ i' = i + 1
     ELSE IF call = "lu_solve" THEN pc' = "forward" /\ i' = 0
     ELSE pc' = "done" /\ i' = 0
  /\ UNCHANGED <<call, n, self, b, rows_p, pb, y, x, args, ret>>

\* decompose_lu: one iteration of `for col in 0..Self::dimension()`
FactorStep ==
  /\ pc = "factor"
  /\ i < n
  /\ LET LU1 == FactorIter(self, n, rows_p, L, U, i)
     IN  L' = LU1[1] /\ U' = LU1[2]
  /\ IF i + 1 < n THEN pc' = "factor" /\ i' = i + 1
     ELSE IF call = "lu_solve" THEN pc' = "permute" /\ i' = 0
     ELSE pc' = "done" /\ i' = 0
  /\ UNCHANGED <<call, n, self, b, rows_p, pb, y, x, args, ret>>

\* mutant of PermuteStep: solve_with_L is given b itself
PermuteStep_Unpermuted ==
  /\ pc = "permute"
  /\ pb' = b
  /\ pc' = "forward" /\ i' = 0
  /\ UNCHANGED <<call, n, self, b, rows_p, L, U, y, x, args, ret>>

\* lu_solve: b.permuted(&p), the argument of solve_with_L
PermuteStep ==
  /\ pc = "permute"
  /\ pb' = permuted(b, rows_p)
  /\ pc' = "forward" /\ i' = 0
  /\ UNCHANGED <<call, n, self, b, rows_p, L, U, y, x, args, ret>>

\* solve_with_L: one iteration of `for i in 0..Self::dimension()`
ForwardStep ==
  /\ pc = "forward"
  /\ i < n
  /\ y' = ForwardIter(L, pb, y, i)
  /\ IF i + 1 < n THEN pc' = "forward" /\ i' = i + 1
     ELSE IF call = "lu_solve" THEN pc' = "backward" /\ i' = n - 1
     ELSE pc' = "done" /\ i' = 0
  /\ UNCHANGED <<call, n, self, b, rows_p, L, U, pb, x, args, ret>>

\* solve_with_U: one iteration of `for i in (0..Self::dimension()).rev()`
BackwardStep ==
  /\ pc = "backward"
  /\ i >= 0
  /\ x' = BackwardIter(U, n, y, x, i)
  /\ IF i > 0 THEN pc' = "backward" /\ i' = i - 1
              ELSE pc' = "done" /\ i' = 0
  /\ UNCHANGED <<call, n, self, b, rows_p, L, U, pb, y, args, ret>>

\* lu_solve runs all five loops
Next == PivotStep \/ FactorStep \/ PermuteStep \/ ForwardStep \/ BackwardStep

Spec == Init /\ [][Next]_vars

\* decompose_lu runs the pivot loop and the factor loop
NextFactor == PivotStep \/ FactorStep

SpecFactor == InitFactor /\ [][NextFactor]_vars

\* a direct call of a triangular solver runs its loop
NextTriangular == ForwardStep \/ BackwardStep

SpecTriangular == InitTriangular /\ [][NextTriangular]_vars

(***************************************************************************)
(* Mathematical notions the properties are stated with.                    *)
(***************************************************************************)
\* the sum of g[0] .. g[k-1], in exact arithmetic
RECURSIVE SumTo(_, _)
SumTo(g, k) == IF k = 0 THEN Zero ELSE XAdd(SumTo(g, k - 1), g[k - 1])

\* the matrix-vector product M.v, in exact arithmetic
MatVec(M, v, d) == [r \in Idx(d) |-> SumTo([k \in Idx(d) |-> XMul(M[r][k], v[k])], d)]

\* the matrix product M.K, in exact arithmetic
MatProduct(M, K, d) ==
  [r \in Idx(d) |-> [c \in Idx(d) |-> SumTo([k \in Idx(d) |-> XMul(M[r][k], K[k][c])], d)]]

\* the determinant of a 2x2 or 3x3 matrix, in exact arithmetic
Det(M, d) ==
  LET m(r, c) == M[r][c]
      t(f, g) == XMul(f, g)
  IN  IF d = 2
      THEN XSub(t(m(0, 0), m(1, 1)), t(m(0, 1), m(1, 0)))
      ELSE XAdd(XSub(t(m(0, 0), XSub(t(m(1, 1), m(2, 2)), t(m(1, 2), m(2, 1)))),
                     t(m(0, 1), XSub(t(m(1, 0), m(2, 2)), t(m(1, 2), m(2, 0))))),
                t(m(0, 2), XSub(t(m(1, 0), m(2, 1)), t(m(1, 1), m(2, 0)))))

FullRank(M, d) == Det(M, d) # Zero

NoZeroPivot(Um, d) == \A k \in Idx(d) : ~IsZero(Um[k][k])

HasZeroColumn(M, d) == \E c \in Idx(d) : \A r \in Idx(d) : IsZero(M[r][c])

\* u = v as numbers: -0.0 is 0.0
SameVec(u, v, d) == \A k \in Idx(d) : XSub(u[k], v[k]) = Zero

\* the tolerance of the specification, 2^-13 (about 1e-4)
Tolerance == Dyadic(1, MantissaBits \div 2 + 1)

\* the sum over lo <= j < hi of v[j] * row[j] in f32: from 0.0, in ascending order,
\* each product and each partial sum rounded
RECURSIVE SumF32(_, _, _, _)
SumF32(row, v, lo, hi) ==
  IF hi <= lo THEN Zero
  ELSE FAdd(SumF32(row, v, lo, hi - 1), FMul(v[hi - 1], row[hi - 1]))

\* column c of the matrix M
Column(M, c) == [k \in DOMAIN M |-> M[k][c]]

\* u == v component by component, as f32 compares
EqVec(u, v, d) == \A k \in Idx(d) : FEq(u[k], v[k])

\* every entry of the matrix M, every component of the vector v is short
ShortMat(M, d) == \A r, c \in Idx(d) : Short(M[r][c])
ShortVec(v, d) == \A k \in Idx(d) : Short(v[k])

IsPermutation(rp, d) == /\ DOMAIN rp = Idx(d)
                        /\ {rp[k] : k \in Idx(d)} = Idx(d)

\* the call runs decompose_lu
Factoring == call \in {"decompose_lu", "lu_solve"}

\* decompose_lu has returned <<L, U, rows_p>>
Factored == Factoring /\ pc \notin {"pivot", "factor"}

(***************************************************************************)
(* Properties.                                                             *)
(***************************************************************************)

\* C1: for every full-rank A and every b, lu_solve(A, b) returns x with A.x = b.
\* (A.x is taken in exact arithmetic and compared within the tolerance)
C1_SolveCorrect ==
  (call = "lu_solve" /\ pc = "done" /\ FullRank(self, n))
    => \A k \in Idx(n) :
         /\ IsFinite(x[k])
         /\ ~XLt(Tolerance, XAbs(XSub(MatVec(self, x, n)[k], b[k])))

C3_FullRankPivots ==
  (Factored /\ FullRank(self, n)) => NoZeroPivot(U, n)

\* C4: the permutation returned by get_pivot_permutation makes every diagonal
\* entry of the row-permuted matrix dominate its column below it:
\* |A[p[c]][c]| >= |A[p[r]][c]| for every r > c.
C4_DiagonalDominates ==
  Factoring /\ pc # "pivot"
    => \A c, r \in Idx(n) :
         r > c => ~FLt(FAbs(self[rows_p[c]][c]), FAbs(self[rows_p[r]][c]))

\* C5: rows_p is a permutation of 0 .. n-1 after every iteration of the column
\* loop of get_pivot_permutation, and so is the permutation returned.
C5_PermutationValid == Factoring => IsPermutation(rows_p, n)

C5_Witness ==
  /\ Factoring /\ pc = "pivot" /\ i = 2 /\ n = 3
  /\ rows_p[0] # 0 /\ rows_p[1] # 1
  /\ Det(self, n) = Zero

\* C6: the L of decompose_lu is unit lower-triangular for every input: its
\* diagonal is 1 and its strictly upper part is 0, as default() made them.
C6_UnitLowerL ==
  Factoring => \A r, c \in Idx(n) : /\ (r = c => L[r][c] = One)
                                    /\ (r < c => L[r][c] = Zero)

C6_Witness ==
  /\ call = "decompose_lu" /\ pc = "done" /\ n = 3
  /\ \E r, c \in Idx(n) : r > c /\ ~IsFinite(L[r][c])
  /\ \E r, c \in Idx(n) : r > c /\ IsFinite(L[r][c]) /\ L[r][c] # Zero

\* C7: the U of decompose_lu is upper-triangular for every input: U[r][c] = 0
\* for every r > c.
C7_UpperU == Factoring => \A r, c \in Idx(n) : r > c => U[r][c] = Zero

C7_Witness ==
  /\ call = "decompose_lu" /\ pc = "done" /\ n = 3
  /\ ~FullRank(self, n)
  /\ \E r, c \in Idx(n) : r < c /\ ~IsFinite(U[r][c])
  /\ \E r, c \in Idx(n) : r < c /\ IsFinite(U[r][c]) /\ U[r][c] # Zero

\* C8: for every A with an all-zero column and every b, lu_solve(A, b) returns
\* (no error is raised) an x with at least one non-finite component.
C8_SingularNonFinite ==
  (call = "lu_solve" /\ pc = "done" /\ HasZeroColumn(self, n))
    => \E k \in Idx(n) : ~IsFinite(x[k])

C8_Witness ==
  /\ call = "lu_solve" /\ pc = "done" /\ n = 2
  /\ self[0][0] = Zero /\ self[1][0] = Zero /\ self[0][1] # Zero
  /\ x[1] = NaN

\* C9 as claimed: for every unit lower-triangular L and every b, solve_with_L(L, b)
\* returns y with L.y = b.
C9_ForwardSolves ==
  (call = "solve_with_L" /\ pc = "done") => SameVec(MatVec(L, y, n), pb, n)

\* C9 as amended: solve_with_L(L, b) returns y with
\* y[i] = b[i] - sum_{j<i} y[j].L[i][j], every product, sum and difference rounded
\* to f32 and nothing divided; L.y = b holds exactly when the entries of L, b and y
\* are short (nothing was rounded).
C9_ForwardSolvesRounded ==
  (call = "solve_with_L" /\ pc = "done")
    => /\ \A k \in Idx(n) : y[k] = FSub(pb[k], SumF32(L[k], y, 0, k))
       /\ (ShortMat(L, n) /\ ShortVec(pb, n) /\ ShortVec(y, n))
            => SameVec(MatVec(L, y, n), pb, n)

C9_Witness ==
  /\ call = "solve_with_L" /\ pc = "done" /\ n = 3
  /\ ShortMat(L, n) /\ ShortVec(pb, n) /\ ShortVec(y, n)
  /\ \A r, c \in Idx(n) : r > c => L[r][c] # Zero
  /\ \A k \in Idx(n) : pb[k] # Zero
  /\ y[1] # pb[1] /\ y[2] # pb[2]

\* C10 as claimed: for every upper-triangular U with a nonzero diagonal and every y,
\* solve_with_U(U, y) returns x with U.x = y.
C10_BackwardSolves ==
  (call = "solve_with_U" /\ pc = "done" /\ NoZeroPivot(U, n))
    => SameVec(MatVec(U, x, n), y, n)

\* C10 as amended: solve_with_U(U, y) returns x with
\* x[i] = (y[i] - sum_{j>i} x[j].U[i][j]) / U[i][i], every product, sum, difference
\* and quotient rounded to f32; when the diagonal of U is nonzero, U.x = y holds
\* exactly when the entries of U, y and x are short (nothing was rounded).
C10_BackwardSolvesRounded ==
  (call = "solve_with_U" /\ pc = "done")
    => /\ \A k \in Idx(n) :
            x[k] = FDiv(FSub(y[k], SumF32(U[k], x, k + 1, n)), U[k][k])
       /\ (NoZeroPivot(U, n) /\ ShortMat(U, n) /\ ShortVec(y, n) /\ ShortVec(x, n))
            => SameVec(MatVec(U, x, n), y, n)

C10_Witness ==
  /\ call = "solve_with_U" /\ pc = "done" /\ n = 3
  /\ NoZeroPivot(U, n)
  /\ ShortMat(U, n) /\ ShortVec(y, n) /\ ShortVec(x, n)
  /\ \A r, c \in Idx(n) : r < c => U[r][c] # Zero
  /\ \A k \in Idx(n) : y[k] # Zero /\ x[k] # y[k]

\* C11: permuted(v, p) returns u with u[k] = v[p[k]] for every k (the doctest:
\* v = (9, 12, 20), p = [2, 0, 1] gives (20, 9, 12)), and lu_solve permutes b by
\* the mapping decompose_lu applies to the rows of A: row k of L.U is row p[k] of A
\* where the factorization rounded nothing (stated at the return of b.permuted(&p)).
C11_Permuted ==
  (call = "lu_solve" /\ pc = "forward" /\ i = 0)
    => /\ \A k \in Idx(n) : pb[k] = b[rows_p[k]]
       /\ (NoZeroPivot(U, n) /\ ShortMat(L, n) /\ ShortMat(U, n))
            => \A k \in Idx(n) : SameVec(MatProduct(L, U, n)[k], self[rows_p[k]], n)

C11_Witness ==
  /\ call = "lu_solve" /\ pc = "forward" /\ i = 0 /\ n = 3
  /\ b = DocVec
  /\ rows_p[0] = 2 /\ rows_p[1] = 0 /\ rows_p[2] = 1
  /\ pb[0] = FromInt(20) /\ pb[1] = FromInt(9) /\ pb[2] = FromInt(12)

\* the selector as specified: at column c the entries are read through the current
\* permutation, |A[p[j]][c]|, and the first largest one is swapped to position c
RECURSIVE SelectorBest(_, _, _, _, _, _)
SelectorBest(A, d, rp, c, j, best) ==
  IF j >= d THEN best
  ELSE SelectorBest(A, d, rp, c, j + 1,
                    IF FLt(FAbs(A[rp[best]][c]), FAbs(A[rp[j]][c])) THEN j ELSE best)

RECURSIVE SelectorLoop(_, _, _, _)
SelectorLoop(A, d, rp, c) ==
  IF c >= d THEN rp
  ELSE LET best == SelectorBest(A, d, rp, c, c + 1, c)
       IN  SelectorLoop(A, d, [rp EXCEPT ![c] = rp[best], ![best] = rp[c]], c + 1)

SelectorPerm(A, d) == SelectorLoop(A, d, [k \in Idx(d) |-> k], 0)

\* C12: get_pivot_permutation(A) returns the permutation of the specified selector,
\* which compares the entries read through the current permutation.
C12_MatchesSelector ==
  (Factoring /\ pc # "pivot") => rows_p = SelectorPerm(self, n)

\* the rows at positions c .. d-1 of the permutation: the candidates of column c
Candidates(rp, d, c) == {rp[j] : j \in c .. (d - 1)}

\* C13 as claimed: when two candidate rows of column i have equal magnitude there
\* and exceed every other candidate, the row placed at position i is the one with
\* the lower original index.
C13_LowerIndexRowWins ==
  [][pc = "pivot"
       => \A r1, r2 \in Candidates(rows_p, n, i) :
            ( /\ r1 < r2
              /\ FAbs(self[r1][i]) = FAbs(self[r2][i])
              /\ \A r \in Candidates(rows_p, n, i) \ {r1, r2} :
                   FLt(FAbs(self[r][i]), FAbs(self[r1][i])) )
            => rows_p'[i] = r1]_vars

\* the lowest index j in c .. d-1 whose |A[j][c]| no other one exceeds
FirstMax(A, d, c) ==
  CHOOSE j \in c .. (d - 1) :
    /\ \A k \in c .. (d - 1) : ~FLt(FAbs(A[j][c]), FAbs(A[k][c]))
    /\ \A k \in c .. (j - 1) : FLt(FAbs(A[k][c]), FAbs(A[j][c]))

\* C13 as amended: at column i the selector takes the lowest index j in i .. n-1
\* with the largest |A[j][i]| (a later equal entry never replaces an earlier
\* maximum) and swaps positions i and j of the permutation.
C13_FirstMaxWins ==
  [][pc = "pivot"
       => LET j == FirstMax(self, n, i)
          IN  rows_p' = [rows_p EXCEPT ![i] = rows_p[j], ![j] = rows_p[i]]]_vars

C13_Witness ==
  /\ pc = "pivot" /\ i = 1 /\ n = 3
  /\ FAbs(self[1][0]) = FAbs(self[2][0])
  /\ self[1][0] # self[2][0]
  /\ FLt(FAbs(self[0][0]), FAbs(self[1][0]))
  /\ rows_p[0] = 1 /\ rows_p[1] = 0 /\ rows_p[2] = 2

\* C14: when the entries of column i on and below the diagonal are all zero, the
\* step for column i leaves the permutation as it was.
C14_ZeroColumnNoSwap ==
  [][(pc = "pivot" /\ \A j \in i .. (n - 1) : self[j][i] = Zero)
       => rows_p' = rows_p]_vars

C14_Witness ==
  /\ pc = "pivot" /\ i = 2 /\ n = 3
  /\ self[1][1] = Zero /\ self[2][1] = Zero
  /\ rows_p[0] = 2 /\ rows_p[1] = 1 /\ rows_p[2] = 0

\* C15: for the doctest's A and b, lu_solve returns exactly [1.25, 8.75, -4.5].
C15_DocSolve ==
  (pc = "done" /\ self = DocMatrix /\ b = DocRhs)
    => /\ x[0] = Dyadic(5, 2)
       /\ x[1] = Dyadic(35, 2)
       /\ x[2] = Dyadic(-9, 1)

C15_Witness ==
  /\ call = "lu_solve" /\ pc = "done" /\ self = DocMatrix /\ b = DocRhs
  /\ \A k \in Idx(n) : IsFinite(x[k])

\* C16: for the doctest's A, get_pivot_permutation returns [1, 0, 2] and
\* decompose_lu returns U = [[2,4,7],[0,1,1.5],[0,0,-2]] and
\* L = [[1,0,0],[0.5,1,0],[0.5,-1,1]].
C16_DocFactor ==
  (Factoring /\ n = 3 /\ self[2][2] = Zero /\ self = DocMatrix)
    => /\ pc # "pivot" => rows_p = [k \in Idx(3) |-> (<<1, 0, 2>>)[k + 1]]
       /\ pc \notin {"pivot", "factor"}
            => /\ U = [r \in Idx(3) |-> [c \in Idx(3) |->
                        (<<<<FromInt(2), FromInt(4), FromInt(7)>>,
                           <<Zero, One, Dyadic(3, 1)>>,
                           <<Zero, Zero, FromInt(-2)>>>>)[r + 1][c + 1]]]
               /\ L = [r \in Idx(3) |-> [c \in Idx(3) |->
                        (<<<<One, Zero, Zero>>,
                           <<Dyadic(1, 1), One, Zero>>,
                           <<Dyadic(1, 1), FromInt(-1), One>>>>)[r + 1][c + 1]]]

C16_Witness ==
  /\ call = "decompose_lu" /\ pc = "done" /\ self = DocMatrix
  /\ U[2][2] = FromInt(-2)

(***************************************************************************)
(* Mat4::determinant, Mat4::adjointed, Mat4::inverted (src/mat4.rs).       *)
(***************************************************************************)
\* impl From<f32> for Mat4: `value` on the diagonal, 0.0 elsewhere
Mat4From(value) == [r \in Idx(4) |-> [c \in Idx(4) |-> IF r = c THEN value ELSE Zero]]

\* the 24 terms of determinant() in the order of the source: the sign the term is
\* added with and the rows r0..r3 of self[r0][0] * self[r1][1] * self[r2][2] * self[r3][3]
DetTerms ==
  << <<1, <<3, 2, 1, 0>>>>, <<-1, <<2, 3, 1, 0>>>>, <<-1, <<3, 1, 2, 0>>>>,
     <<1, <<1, 3, 2, 0>>>>, <<1, <<2, 1, 3, 0>>>>, <<-1, <<1, 2, 3, 0>>>>,
     <<-1, <<3, 2, 0, 1>>>>, <<1, <<2, 3, 0, 1>>>>, <<1, <<3, 0, 2, 1>>>>,
     <<-1, <<0, 3, 2, 1>>>>, <<-1, <<2, 0, 3, 1>>>>, <<1, <<0, 2, 3, 1>>>>,
     <<1, <<3, 1, 0, 2>>>>, <<-1, <<1, 3, 0, 2>>>>, <<-1, <<3, 0, 1, 2>>>>,
     <<1, <<0, 3, 1, 2>>>>, <<1, <<1, 0, 3, 2>>>>, <<-1, <<0, 1, 3, 2>>>>,
     <<-1, <<2, 1, 0, 3>>>>, <<1, <<1, 2, 0, 3>>>>, <<1, <<2, 0, 1, 3>>>>,
     <<-1, <<0, 2, 1, 3>>>>, <<-1, <<1, 0, 2, 3>>>>, <<1, <<0, 1, 2, 3>>>> >>

\* the product of term k of determinant()
DetTerm(m, k) ==
  LET r == DetTerms[k][2]
  IN  FMul(FMul(FMul(m[r[1]][0], m[r[2]][1]), m[r[3]][2]), m[r[4]][3])

\* the first k terms of determinant(), added and subtracted from left to right
RECURSIVE DetSum(_, _)
DetSum(m, k) ==
  IF k = 1 THEN DetTerm(m, 1)
  ELSE IF DetTerms[k][1] = 1 THEN FAdd(DetSum(m, k - 1), DetTerm(m, k))
  ELSE FSub(DetSum(m, k - 1), DetTerm(m, k))

\* Mat4::determinant
determinant(m) == DetSum(m, 24)

\* the three-term expression every entry of adjointed() is made of, over the rows
\* rs and the columns cs (ascending triples):
\*   self[r1][c1] * (self[r2][c2] * self[r3][c3] - self[r2][c3] * self[r3][c2])
\* - self[r2][c1] * (self[r1][c2] * self[r3][c3] - self[r1][c3] * self[r3][c2])
\* + self[r3][c1] * (self[r1][c2] * self[r2][c3] - self[r1][c3] * self[r2][c2])
Minor(m, rs, cs) ==
  LET e(j, k) == m[rs[j]][cs[k]]
      d(j, k) == FSub(FMul(e(j, 2), e(k, 3)), FMul(e(j, 3), e(k, 2)))
  IN  FAdd(FSub(FMul(e(1, 1), d(2, 3)), FMul(e(2, 1), d(1, 3))), FMul(e(3, 1), d(1, 2)))

\* 0..3 without k, ascending
Others(k) == (<< <<1, 2, 3>>, <<0, 2, 3>>, <<0, 1, 3>>, <<0, 1, 2>> >>)[k + 1]

\* Mat4::adjointed: result[r][c] is the expression over the rows other than c and
\* the columns other than r, negated where r + c is odd
adjointed(m) ==
  [r \in Idx(4) |-> [c \in Idx(4) |->
     IF (r + c) % 2 = 1 THEN FNeg(Minor(m, Others(c), Others(r)))
     ELSE Minor(m, Others(c), Others(r))]]

\* Mat4::inverted
inverted(m) ==
  LET det == determinant(m)
  IN  IF FLt(Zero, det)
      THEN LET adjoint == adjointed(m)
           IN  [r \in Idx(4) |-> [c \in Idx(4) |-> FDiv(adjoint[r][c], det)]]
      ELSE Mat4From(Zero)

\* the matrix of the doctest of adjointed()
DocMat4 ==
  [r \in Idx(4) |-> [c \in Idx(4) |->
     FromInt((<< <<4, 15, 2, 13>>, <<5, 10, 7, 12>>,
                 <<9, 6, 11, 8>>, <<16, 3, 14, 1>> >>)[r + 1][c + 1])]]

\* the inputs of inverted() have at most MaxNonzero entries that are not 0.0
MaxNonzero == 4

Cells == Idx(4) \X Idx(4)

\* the matrix with sg[cell] at the cells of S and 0.0 elsewhere
SparseMat4(S, sg) ==
  [r \in Idx(4) |-> [c \in Idx(4) |->
     IF <<r, c>> \in S THEN FromInt(sg[<<r, c>>]) ELSE Zero]]

\* no call of the solver is running
NoSolve ==
  /\ n = 0 /\ self = None /\ b = None /\ rows_p = None
  /\ L = None /\ U = None /\ pb = None /\ y = None /\ x = None
  /\ i = 0

\* a call of m.inverted(): m is the doctest matrix or has entries -1.0, 0.0, 1.0
InitInverse ==
  /\ NoSolve
  /\ call = "Mat4::inverted" /\ pc = "call"
  /\ \/ args = [m |-> DocMat4]
     \/ \E S \in {T \in SUBSET Cells : Cardinality(T) <= MaxNonzero} :
          \E sg \in [S -> {-1, 1}] : args = [m |-> SparseMat4(S, sg)]
  /\ ret = None

\* the call of inverted() returns
InvertedStep ==
  /\ call = "Mat4::inverted" /\ pc = "call"
  /\ ret' = inverted(args.m)
  /\ pc' = "done"
  /\ UNCHANGED <<call, n, self, b, rows_p, L, U, pb, y, x, i, args>>

NextInverse == InvertedStep

SpecInverse == InitInverse /\ [][NextInverse]_vars

\* C18: for every Mat4 m whose determinant is nonzero, m.inverted() is
\* adjointed(m) / determinant(m) and its product with m is the identity.
C18_InvertedIsInverse ==
  (call = "Mat4::inverted" /\ pc = "done" /\ ~IsZero(determinant(args.m)))
    => /\ ret = [r \in Idx(4) |-> [c \in Idx(4) |->
                   FDiv(adjointed(args.m)[r][c], determinant(args.m))]]
       /\ MatProduct(args.m, ret, 4) = DefaultMat(4)
       /\ MatProduct(ret, args.m, 4) = DefaultMat(4)

(***************************************************************************)
(* Curve::lerp (src/curve.rs), for Curve<f32>.  The values of the curve    *)
(* are a function over 0 .. len-1, the indices of the Vec.                 *)
(***************************************************************************)
\* what a call returns when an index is out of bounds
Panic == <<"panic">>

\* the index w of self.0[w] is below len
InBounds(w, len) == IsSmall(w) /\ NatOf(w) < len

\* mutant of CurveLerp: new_factor is used without the clamp to [0, 1]
CurveLerp_NoClamp(values, factor) ==
  LET len == Cardinality(DOMAIN values)
  IN  IF len > 1
      THEN IF FLt(factor, One)
           THEN LET factor_scaled == FMul(factor, UnsignedAsF32(Unsigned(len - 1)))
                    start == AsUsize(factor_scaled)
                    end == AsUsize(FAdd(factor_scaled, One))
                    new_factor == FSub(factor_scaled, UnsignedAsF32(AsU32(factor_scaled)))
                IN  IF ~InBounds(start, len) \/ ~InBounds(end, len) THEN Panic
                    ELSE FAdd(FMul(FSub(One, new_factor), values[NatOf(start)]),
                                FMul(new_factor, values[NatOf(end)]))
           ELSE values[len - 1]
      ELSE IF len = 1 THEN values[0]
      ELSE Zero

\* Curve::lerp: start and end are the indices of self.0[..], an index that is
\* not below len panics
CurveLerp(values, factor) ==
  LET len == Cardinality(DOMAIN values)
  IN  IF len > 1
      THEN IF FLt(factor, One)
           THEN LET factor_scaled == FMul(factor, UnsignedAsF32(Unsigned(len - 1)))
                    start == AsUsize(factor_scaled)
                    end == AsUsize(FAdd(factor_scaled, One))
                    new_factor == FSub(factor_scaled, UnsignedAsF32(AsU32(factor_scaled)))
                    factor_clamped == FMax(Zero, FMin(One, new_factor))
                IN  IF ~InBounds(start, len) \/ ~InBounds(end, len) THEN Panic
                    ELSE FAdd(FMul(FSub(One, factor_clamped), values[NatOf(start)]),
                                FMul(factor_clamped, values[NatOf(end)]))
           ELSE values[len - 1]
      ELSE IF len = 1 THEN values[0]
      ELSE Zero

\* curves have at most MaxLen values
MaxLen == 4
\* the values of a curve are 0, 5, .., 5 * MaxStep
MaxStep == 2
\* finite factors are multiples of 1 / 2^FactorBits
FactorBits == 2

CurveValues == {FromInt(5 * k) : k \in 0 .. MaxStep}

\* the factors: from just below 0 to just above 1, the largest f32 below 1.0,
\* and the non-finite values
Factors ==
  {Dyadic(k, FactorBits) : k \in -1 .. (Pow2(FactorBits) + 1)}
    \cup {BelowOne, NegTiny, NaN, PosInf, NegInf}

\* a call of c.lerp(factor)
InitCurve ==
  /\ NoSolve
  /\ call = "Curve::lerp" /\ pc = "call"
  /\ \E len \in 0 .. MaxLen :
       \E values \in [Idx(len) -> CurveValues] :
         \E factor \in Factors : args = [values |-> values, factor |-> factor]
  /\ ret = None

\* the call of Curve::lerp returns or panics
CurveLerpStep ==
  /\ call = "Curve::lerp" /\ pc = "call"
  /\ ret' = CurveLerp(args.values, args.factor)
  /\ pc' = "done"
  /\ UNCHANGED <<call, n, self, b, rows_p, L, U, pb, y, x, i, args>>

NextCurve == CurveLerpStep

SpecCurve == InitCurve /\ [][NextCurve]_vars

\* the length of the curve of the call
CurveLen == Cardinality(DOMAIN args.values)

\* (1 - t).v[k] + t.v[k+1] in exact arithmetic, s = factor.(len - 1), k = floor(s),
\* t = s - k, for 0 <= factor < 1
Interpolated(values, factor) ==
  LET s == XMul(factor, FromInt(Cardinality(DOMAIN values) - 1))
      k == IF s[2] >= 0 THEN s[1] * Pow2(s[2]) ELSE s[1] \div Pow2(-s[2])
      t == XSub(s, FromInt(k))
  IN  XAdd(XMul(XSub(One, t), values[k]), XMul(t, values[k + 1]))

\* C19: for every curve of at least 2 values and every factor with 0 <= factor < 1,
\* Curve::lerp(factor) returns (1 - t).v[k] + t.v[k+1] with s = factor.(len - 1),
\* k = floor(s), t = s - k.
C19_CurveInterpolates ==
  ( /\ call = "Curve::lerp" /\ pc = "done"
    /\ CurveLen >= 2
    /\ IsFinite(args.factor) /\ ~FLt(args.factor, Zero) /\ FLt(args.factor, One) )
    => ret = Interpolated(args.values, args.factor)

(***************************************************************************)
(* lerp (src/lib.rs) and the conversions of src/private/num.rs.  An        *)
(* argument of lerp is a record of its type ty and its value: the integer  *)
(* k of an i32, the limbs w of a u32, the scalar v of an f32.  Num::PosInt *)
(* holds a u32, Num::NegInt an i32, Num::Float an f32.                     *)
(***************************************************************************)
PosInt(k) == [tag |-> "PosInt", v |-> k]
NegInt(k) == [tag |-> "NegInt", v |-> k]
Float(v) == [tag |-> "Float", v |-> v]

\* Option::None of Num::check
NoNum == [tag |-> "None"]

\* Num::check
RECURSIVE NumCheck(_)
NumCheck(num) ==
  IF num.tag = "NegInt"
  THEN (IF num.v < 0 THEN NoNum ELSE PosInt(Unsigned(num.v)))
  ELSE IF num.tag = "Float"
  THEN (IF FNe(FromInt(AsI32(num.v)), num.v) THEN NoNum
        ELSE NumCheck(NegInt(AsI32(num.v))))
  ELSE NoNum

\* PrivateIntoNum::into: Num::from of a u32, of an i32 or of an f32
NumFrom(arg) ==
  IF arg.ty = "u32" THEN PosInt(arg.w)
  ELSE IF arg.ty = "i32"
  THEN (IF arg.k < 0 THEN NegInt(arg.k) ELSE PosInt(Unsigned(arg.k)))
  ELSE LET num == NumCheck(Float(arg.v))
       IN  IF num # NoNum THEN num ELSE Float(arg.v)

\* impl Into<f32> for Num
NumIntoF32(num) ==
  IF num.tag = "NegInt" THEN FromInt(num.v)
  ELSE IF num.tag = "PosInt" THEN UnsignedAsF32(num.v)
  ELSE num.v

\* lerp
lerp(start, end, factor) ==
  LET factor_clamped == FMax(Zero, FMin(One, factor))
      _start == NumIntoF32(NumFrom(start))
      _end == NumIntoF32(NumFrom(end))
  IN  FAdd(FMul(FSub(One, factor_clamped), _start), FMul(factor_clamped, _end))

\* the i32 arguments of lerp range over -MaxValue .. MaxValue
MaxValue == 3

\* 0.1_f32
OneTenth == Dyadic(13421773, MantissaBits + 3)

\* the arguments start and end: i32 values (the small ones, one that is no f32
\* and the least two), u32 values (a small one and the largest), and f32 values
\* that are whole, fractional, NaN, infinite, -2^31 and below it
LerpArgs ==
  {[ty |-> "i32", k |-> k] :
     k \in (-MaxValue .. MaxValue) \cup {Pow2(MantissaBits) + 1, -I32Max, I32Min}}
    \cup {[ty |-> "u32", w |-> w] : w \in {Unsigned(2), U32Max}}
    \cup {[ty |-> "f32", v |-> v] :
             v \in {FromInt(2), FromInt(-2), Dyadic(3, 1), NaN, PosInf,
                    FromInt(I32Min), FMul(FromInt(I32Min), Dyadic(3, 1))}}

LerpFactors == Factors \cup {OneTenth}

\* a call of lerp(start, end, factor)
InitLerp ==
  /\ NoSolve
  /\ call = "lerp" /\ pc = "call"
  /\ \E start, end \in LerpArgs :
       \E factor \in LerpFactors :
         args = [start |-> start, end |-> end, factor |-> factor]
  /\ ret = None

\* the call of lerp returns
LerpStep ==
  /\ call = "lerp" /\ pc = "call"
  /\ ret' = lerp(args.start, args.end, args.factor)
  /\ pc' = "done"
  /\ UNCHANGED <<call, n, self, b, rows_p, L, U, pb, y, x, i, args>>

NextLerp == LerpStep

SpecLerp == InitLerp /\ [][NextLerp]_vars

\* the f32 nearest to the number an argument of lerp stands for
ValueOf(arg) ==
  IF arg.ty = "i32" THEN FromInt(arg.k)
  ELSE IF arg.ty = "u32" THEN UnsignedAsF32(arg.w)
  ELSE arg.v

\* the argument is the i32 k
IsI32(arg, k) == arg.ty = "i32" /\ arg.k = k

\* both arguments are short: they are their f32 values, and the exact operations
\* on them stay within the integers
ShortArgs == Short(ValueOf(args.start)) /\ Short(ValueOf(args.end))

\* the factor clamped to [0, 1]
Clamped(factor) ==
  IF factor = NegInf \/ (IsFinite(factor) /\ XLt(factor, Zero)) THEN Zero
  ELSE IF factor = PosInf \/ (IsFinite(factor) /\ XLt(One, factor)) THEN One
  ELSE factor

\* (1 - f).s + f.e in exact arithmetic
Blend(s, e, f) == XAdd(XMul(XSub(One, f), s), XMul(f, e))

\* a call of lerp on finite numbers with a factor that is not NaN has returned
LerpReturned ==
  /\ call = "lerp" /\ pc = "done"
  /\ IsFinite(ValueOf(args.start)) /\ IsFinite(ValueOf(args.end))

\* C20: lerp(start, end, factor) is (1 - f).start + f.end with f the factor
\* clamped to [0, 1]; it lies between start and end; factor <= 0 returns start
\* and factor >= 1 returns end (lerp(1, 3, 0.5) = 2, lerp(0, 1.5, 0.5) = 0.75).
\* Stated for the arguments that are short, where the exact value is that of
\* the arguments as given.
C20_LerpExact ==
  (LerpReturned /\ ShortArgs /\ ~IsNaN(args.factor))
    => LET s == ValueOf(args.start)
           e == ValueOf(args.end)
           f == Clamped(args.factor)
       IN  /\ IsFinite(ret)
           /\ ret = Blend(s, e, f)
           /\ ~XLt(ret, s) \/ ~XLt(ret, e)
           /\ ~XLt(s, ret) \/ ~XLt(e, ret)
           /\ f = Zero => ret = s
           /\ f = One => ret = e
           /\ (IsI32(args.start, 1) /\ IsI32(args.end, 3)
                 /\ args.factor = Dyadic(1, 1)) => ret = FromInt(2)
           /\ (IsI32(args.start, 0) /\ args.end.ty = "f32" /\ args.end.v = Dyadic(3, 1)
                 /\ args.factor = Dyadic(1, 1)) => ret = Dyadic(3, 2)

(***************************************************************************)
(* Properties of the solver's control and data flow.                       *)
(***************************************************************************)
\* the loops of lu_solve in the order they may follow each other
PhaseOrder ==
  {<<"pivot", "pivot">>, <<"pivot", "factor">>, <<"factor", "factor">>,
   <<"factor", "permute">>, <<"permute", "forward">>, <<"forward", "forward">>,
   <<"forward", "backward">>, <<"backward", "backward">>, <<"backward", "done">>}

\* C21: lu_solve(A, b) is solve_with_U(U, solve_with_L(L, permuted(b, p))) with
\* (L, U, p) = decompose_lu(A) and p = get_pivot_permutation(A); the steps run in
\* the order pivot selection, factorization, permutation of b, forward
\* substitution, backward substitution.
C21_Orchestration ==
  [][call = "lu_solve"
       => /\ <<pc, pc'>> \in PhaseOrder
          /\ pc' = "done"
               => /\ rows_p' = get_pivot_permutation(self, n)
                  /\ <<L', U', rows_p'>> = decompose_lu(self, n)
                  /\ pb' = permuted(b, rows_p')
                  /\ y' = solve_with_L(L', n, pb')
                  /\ x' = solve_with_U(U', n, y')
                  /\ x' = lu_solve(self, n, b)]_vars

C21_Witness ==
  /\ call = "lu_solve" /\ pc = "done" /\ n = 3
  /\ rows_p[0] = 2 /\ rows_p[1] = 0 /\ rows_p[2] = 1
  /\ b[0] = One /\ b[1] = Zero /\ b[2] = Zero
  /\ pb[1] = One
  /\ \A k \in Idx(n) : IsFinite(x[k])
  /\ x[0] # Zero

\* the number of columns decompose_lu has finished
ColumnsDone == IF pc = "factor" THEN i ELSE n

\* sum over k < m of U[k][col] . L[row][k], in f32 from 0.0
SumBelow(row, col, m) == SumF32(L[row], Column(U, col), 0, m)

\* C22: decompose_lu builds L and U column by column; every finished column col has
\* U[row][col] = A[p[row]][col] - sum_{k<row} U[k][col].L[row][k] for row <= col and
\* L[row][col] = (A[p[row]][col] - sum_{k<col} U[k][col].L[row][k]) / U[col][col] for
\* row > col, and every column not yet reached holds its initial identity / zero
\* values, so a step reads only entries of finished columns, of its own column
\* written before, or initial values.
C22_ColumnRecurrence ==
  (Factoring /\ pc # "pivot")
    => \A col \in Idx(n) :
         IF col < ColumnsDone
         THEN \A row \in Idx(n) :
                IF row <= col
                THEN U[row][col] = FSub(self[rows_p[row]][col], SumBelow(row, col, row))
                ELSE L[row][col] = FDiv(FSub(self[rows_p[row]][col], SumBelow(row, col, col)),
                                        U[col][col])
         ELSE \A row \in Idx(n) :
                /\ U[row][col] = Zero
                /\ L[row][col] = IF row = col THEN One ELSE Zero

C22_Witness ==
  /\ call = "decompose_lu" /\ pc = "factor" /\ i = 2 /\ n = 3
  /\ rows_p[0] = 1
  /\ L[2][0] # Zero /\ L[2][1] # Zero /\ IsFinite(L[2][1])
  /\ U[0][1] # Zero /\ U[1][1] # self[rows_p[1]][1]
  /\ U[2][2] = Zero

\* C23: whenever every pivot U[i][i] computed by decompose_lu(A) is nonzero,
\* lu_solve(A, b) returns x with A.x = b exactly, whatever permutation was chosen.
\* The arithmetic of a run is exact when the entries of L, U, y and x are short.
C23_NonzeroPivotsSolve ==
  (call = "lu_solve" /\ pc = "done" /\ NoZeroPivot(U, n))
    => /\ \A k \in Idx(n) : IsFinite(x[k])
       /\ (ShortMat(L, n) /\ ShortMat(U, n) /\ ShortVec(y, n) /\ ShortVec(x, n))
            => SameVec(MatVec(self, x, n), b, n)

\* a solved system whose permutation is not the one partial pivoting on the
\* eliminated matrix would give, with a fractional solution
C23_Witness ==
  /\ call = "lu_solve" /\ pc = "done" /\ n = 3
  /\ NoZeroPivot(U, n)
  /\ rows_p # IdentityPerm(n)
  /\ rows_p # SelectorPerm(self, n)
  /\ ShortMat(L, n) /\ ShortMat(U, n) /\ ShortVec(y, n) /\ ShortVec(x, n)
  /\ \E k \in Idx(n) : x[k][2] < 0
  /\ SameVec(MatVec(self, x, n), b, n)

\* the indices the next step of the call uses: rows and columns of A, L and U,
\* components of b, y and x, positions of the permutation, and the values p[row]
\* that index the rows of A and the components of b
IndicesUsed ==
  IF pc = "pivot"
  THEN {i} \cup ((i + 1) .. (n - 1)) \cup {MaxPos(self, n, i)}
  ELSE IF pc = "factor"
  THEN (0 .. i) \cup ((i + 1) .. (n - 1)) \cup {rows_p[row] : row \in DOMAIN rows_p}
  ELSE IF pc = "permute"
  THEN (0 .. (n - 1)) \cup {rows_p[k] : k \in DOMAIN rows_p}
  ELSE IF pc = "forward"
  THEN (0 .. i)
  ELSE IF pc = "backward"
  THEN {i} \cup ((i + 1) .. (n - 1))
  ELSE {}

\* C24: every index used by get_pivot_permutation, decompose_lu, permuted,
\* solve_with_L, solve_with_U and lu_solve lies in [0, N), for singular A too.
C24_IndicesInRange ==
  call = "lu_solve"
    => /\ IndicesUsed \subseteq Idx(n)
       /\ DOMAIN rows_p = Idx(n)
       /\ \A M \in {self, L, U} : DOMAIN M = Idx(n) /\ \A r \in Idx(n) : DOMAIN M[r] = Idx(n)
       /\ \A v \in {b, pb, y, x} : DOMAIN v = Idx(n)

\* the last step of solve_with_U on a singular matrix with a permuted b
C24_Witness ==
  /\ call = "lu_solve" /\ pc = "backward" /\ i = 0 /\ n = 3
  /\ HasZeroColumn(self, n)
  /\ rows_p[0] = 2 /\ rows_p[2] # 2
  /\ ~IsFinite(x[2])

\* column c of A at the rows c .. d-1, every other entry replaced by 0.0
ColumnOnly(A, d, c) ==
  [r \in Idx(d) |-> [k \in Idx(d) |-> IF k = c /\ r >= c THEN A[r][k] ELSE Zero]]

\* the identity order after the swaps of positions c and FirstMax(A, d, c), c < m
RECURSIVE SwapsBefore(_, _, _)
SwapsBefore(A, d, m) ==
  IF m = 0 THEN [k \in Idx(d) |-> k]
  ELSE LET rp == SwapsBefore(A, d, m - 1)
           j == FirstMax(A, d, m - 1)
       IN  [rp EXCEPT ![m - 1] = rp[j], ![j] = rp[m - 1]]

\* the number of columns get_pivot_permutation has finished
PivotsDone == IF pc = "pivot" THEN i ELSE n

\* C25: max_pos of column i is found by comparing |A[j][i]| over the original rows
\* j in i .. N-1, so it depends only on column i of A at those rows and not on the
\* swaps of earlier columns; the step swaps positions i and max_pos (stated before
\* every step of the column loop and at its return).
C25_OriginalRowsCompared ==
  (Factoring /\ (pc = "pivot" \/ (pc = "factor" /\ i = 0)))
    => /\ rows_p = SwapsBefore(self, n, PivotsDone)
       /\ pc = "pivot"
            => /\ MaxPos(self, n, i) = FirstMax(self, n, i)
               /\ MaxPos(self, n, i) = MaxPos(ColumnOnly(self, n, i), n, i)

\* a column whose choice differs from the one made through the permutation
C25_Witness ==
  /\ call = "decompose_lu" /\ pc = "factor" /\ i = 0 /\ n = 3
  /\ rows_p[0] = 1 /\ rows_p[1] = 2 /\ rows_p[2] = 0
  /\ SelectorPerm(self, n) = [k \in Idx(3) |-> (<<1, 0, 2>>)[k + 1]]

\* C26: the first pivot row has the largest magnitude of column 0, and the steps
\* for later columns never modify the positions before their own.
C26_FirstPivotAndPrefix ==
  [][(Factoring /\ pc = "pivot")
       => /\ \A k \in 0 .. (i - 1) : rows_p'[k] = rows_p[k]
          /\ \A r \in Idx(n) : ~FLt(FAbs(self[rows_p'[0]][0]), FAbs(self[r][0]))]_vars

C26_Witness ==
  /\ call = "decompose_lu" /\ pc = "factor" /\ i = 0 /\ n = 3
  /\ rows_p[0] = 2 /\ rows_p[1] = 0 /\ rows_p[2] = 1
  /\ FLt(FAbs(self[0][0]), FAbs(self[2][0]))
  /\ FLt(FAbs(self[1][0]), FAbs(self[2][0]))

\* values written over the entries a solver is said not to read
AltFills == {Zero, FromInt(-1), NaN}

\* the entries solve_with_L may read (below the diagonal), and solve_with_U (on and above)
ReadByL(r, c) == r > c
ReadByU(r, c) == r <= c

\* M with its diagonal entries outside the read ones replaced by dg and the others by off
Refill(M, d, lower, dg, off) ==
  [r \in Idx(d) |-> [c \in Idx(d) |->
     IF (lower /\ ReadByL(r, c)) \/ (~lower /\ ReadByU(r, c)) THEN M[r][c]
     ELSE IF r = c THEN dg ELSE off]]

\* matrices that agree with M on the read entries: every unread entry refilled, or a
\* single unread entry turned into NaN
Agreeing(M, d, lower) ==
  {Refill(M, d, lower, dg, off) : dg \in AltFills, off \in AltFills}
    \cup {[M EXCEPT ![rc[1]][rc[2]] = NaN] :
            rc \in {q \in Idx(d) \X Idx(d) :
                      IF lower THEN ~ReadByL(q[1], q[2]) ELSE ~ReadByU(q[1], q[2])}}

\* C27: solve_with_L depends only on b and the entries of L below the diagonal, and
\* solve_with_U only on y and the entries of U on and above the diagonal.
C27_OnlyTriangleRead ==
  /\ (call = "solve_with_L" /\ pc = "done")
       => \A M \in Agreeing(L, n, TRUE) : solve_with_L(M, n, pb) = y
  /\ (call = "solve_with_U" /\ pc = "done")
       => \A M \in Agreeing(U, n, FALSE) : solve_with_U(M, n, y) = x

C27_Witness ==
  /\ call = "solve_with_L" /\ pc = "done" /\ n = 3
  /\ L[1][0] = One /\ L[2][0] = FromInt(-1) /\ L[2][1] = One
  /\ pb[0] = One /\ pb[1] = Zero /\ pb[2] = One
  /\ y[1] = FromInt(-1) /\ y[2] = FromInt(3)
  /\ \E M \in Agreeing(L, n, TRUE) : IsNaN(M[0][0]) /\ IsNaN(M[0][2])

(***************************************************************************)
(* The products of Mat2 and Mat3 (src/mat2.rs, src/mat3.rs): f32           *)
(* arithmetic, every product and every sum rounded, in the order written.  *)
(***************************************************************************)
\* Vec2::dot
Vec2Dot(u, w) == FAdd(FMul(u[0], w[0]), FMul(u[1], w[1]))

\* Vec3::dot
Vec3Dot(u, w) == FAdd(FAdd(FMul(u[0], w[0]), FMul(u[1], w[1])), FMul(u[2], w[2]))

\* Mat2 * Vec2
Mat2MulVec(m, vec) == [r \in Idx(2) |-> Vec2Dot(m[r], vec)]

\* Mat3 * Vec3
Mat3MulVec(m, vec) == [r \in Idx(3) |-> Vec3Dot(m[r], vec)]

\* a matrix from its rows
Rows2(r0, r1) == [r \in Idx(2) |-> [c \in Idx(2) |-> (IF r = 0 THEN r0 ELSE r1)[c + 1]]]
Rows3(r0, r1, r2) ==
  [r \in Idx(3) |-> [c \in Idx(3) |-> (IF r = 0 THEN r0 ELSE IF r = 1 THEN r1 ELSE r2)[c + 1]]]

\* mutant of Mat2Mul: row of self times column of right
Mat2Mul_RowByColumn(m, right) ==
  Rows2(
    <<FAdd(FMul(m[0][0], right[0][0]), FMul(m[0][1], right[1][0])),
      FAdd(FMul(m[0][0], right[0][1]), FMul(m[0][1], right[1][1]))>>,
    <<FAdd(FMul(m[1][0], right[0][0]), FMul(m[1][1], right[1][0])),
      FAdd(FMul(m[1][0], right[0][1]), FMul(m[1][1], right[1][1]))>>)

\* Mat2 * Mat2
Mat2Mul(m, right) ==
  Rows2(
    <<FAdd(FMul(m[0][0], right[0][0]), FMul(m[1][0], right[0][1])),
      FAdd(FMul(m[0][1], right[0][0]), FMul(m[1][1], right[0][1]))>>,
    <<FAdd(FMul(m[0][0], right[1][0]), FMul(m[1][0], right[1][1])),
      FAdd(FMul(m[0][1], right[1][0]), FMul(m[1][1], right[1][1]))>>)

\* a + c + e, left to right
Add3(a, c, e) == FAdd(FAdd(a, c), e)

\* mutant of Mat3Mul: row of self times column of right
Mat3Mul_RowByColumn(m, right) ==
  [r \in Idx(3) |-> [c \in Idx(3) |->
     Add3(FMul(m[r][0], right[0][c]), FMul(m[r][1], right[1][c]),
          FMul(m[r][2], right[2][c]))]]

\* Mat3 * Mat3
Mat3Mul(m, right) ==
  Rows3(
    <<Add3(FMul(m[0][0], right[0][0]), FMul(m[1][0], right[0][1]), FMul(m[2][0], right[0][2])),
      Add3(FMul(m[0][1], right[0][0]), FMul(m[1][1], right[0][1]), FMul(m[2][1], right[0][2])),
      Add3(FMul(m[0][2], right[0][0]), FMul(m[1][2], right[0][1]), FMul(m[2][2], right[0][2]))>>,
    <<Add3(FMul(m[0][0], right[1][0]), FMul(m[1][0], right[1][1]), FMul(m[2][0], right[1][2])),
      Add3(FMul(m[0][1], right[1][0]), FMul(m[1][1], right[1][1]), FMul(m[2][1], right[1][2])),
      Add3(FMul(m[0][2], right[1][0]), FMul(m[1][2], right[1][1]), FMul(m[2][2], right[1][2]))>>,
    <<Add3(FMul(m[0][0], right[2][0]), FMul(m[1][0], right[2][1]), FMul(m[2][0], right[2][2])),
      Add3(FMul(m[0][1], right[2][0]), FMul(m[1][1], right[2][1]), FMul(m[2][1], right[2][2])),
      Add3(FMul(m[0][2], right[2][0]), FMul(m[1][2], right[2][1]), FMul(m[2][2], right[2][2]))>>)

\* the largest integer entry of the operands
MaxCell == 1

CellInts == {FromInt(k) : k \in -1 .. MaxCell}

\* the values of a single nonzero entry
CellValues == (CellInts \ {Zero}) \cup {Rough}

\* the matrix with entries 1.0, 2.0, 3.0, ... row by row
CountMat(d) == [r \in Idx(d) |-> [c \in Idx(d) |-> FromInt(r * d + c + 1)]]

\* the operands: the zero matrix, the matrices with one nonzero entry, and two
\* matrices without a zero entry
MulMatrices(d) ==
  {[r \in Idx(d) |-> [c \in Idx(d) |-> IF <<r, c>> = cell THEN val ELSE Zero]] :
     cell \in Idx(d) \X Idx(d), val \in CellValues \cup {Zero}}
    \cup {CountMat(d), [r \in Idx(d) |-> [c \in Idx(d) |-> CountMat(d)[c][r]]]}

\* the vectors: integer components, and 3.0 in a single component
MulVectors(d) ==
  [Idx(d) -> CellInts]
    \cup {[c \in Idx(d) |-> IF c = k THEN FromInt(3) ELSE Zero] : k \in Idx(d)}

NoProduct == [ab |-> None, lhs |-> None, av |-> None, rhs |-> None]

\* the evaluation of (A * B) * v and of B * (A * v), for Mat2 and for Mat3
InitMul ==
  /\ NoSolve
  /\ call \in {"Mat2::mul", "Mat3::mul"} /\ pc = "product"
  /\ LET d == IF call = "Mat2::mul" THEN 2 ELSE 3
     IN  \E A \in MulMatrices(d) : \E B \in MulMatrices(d) : \E v \in MulVectors(d) :
           args = [a |-> A, b |-> B, v |-> v]
  /\ ret = NoProduct

\* the dimension of the operands of the call
MulDim == IF call = "Mat2::mul" THEN 2 ELSE 3

MatMul(m, right) == IF MulDim = 2 THEN Mat2Mul(m, right) ELSE Mat3Mul(m, right)

MatMulVec(m, vec) == IF MulDim = 2 THEN Mat2MulVec(m, vec) ELSE Mat3MulVec(m, vec)

\* A * B
MatMulStep ==
  /\ call \in {"Mat2::mul", "Mat3::mul"} /\ pc = "product"
  /\ ret' = [ret EXCEPT !.ab = MatMul(args.a, args.b)]
  /\ pc' = "apply"
  /\ UNCHANGED <<call, n, self, b, rows_p, L, U, pb, y, x, i, args>>

\* a matrix times a vector: (A * B) * v, then A * v, then B * (A * v)
MatVecStep ==
  /\ call \in {"Mat2::mul", "Mat3::mul"} /\ pc \in {"apply", "inner", "outer"}
  /\ ret' = IF pc = "apply" THEN [ret EXCEPT !.lhs = MatMulVec(ret.ab, args.v)]
            ELSE IF pc = "inner" THEN [ret EXCEPT !.av = MatMulVec(args.a, args.v)]
            ELSE [ret EXCEPT !.rhs = MatMulVec(args.b, ret.av)]
  /\ pc' = IF pc = "apply" THEN "inner" ELSE IF pc = "inner" THEN "outer" ELSE "done"
  /\ UNCHANGED <<call, n, self, b, rows_p, L, U, pb, y, x, i, args>>

NextMul == MatMulStep \/ MatVecStep

SpecMul == InitMul /\ [][NextMul]_vars

\* a Mat2 or Mat3 product has been evaluated both ways
Multiplied == call \in {"Mat2::mul", "Mat3::mul"} /\ pc = "done"

\* the sum over k < m of B[r][k] . A[k][c], in exact arithmetic
RECURSIVE SumBA(_, _, _, _, _)
SumBA(A, B, r, c, m) ==
  IF m = 0 THEN Zero ELSE XAdd(SumBA(A, B, r, c, m - 1), XMul(B[r][m - 1], A[m - 1][c]))

\* the same sum in f32, each product and each partial sum rounded
RECURSIVE SumBAF32(_, _, _, _, _)
SumBAF32(A, B, r, c, m) ==
  IF m = 1 THEN FMul(B[r][0], A[0][c])
  ELSE FAdd(SumBAF32(A, B, r, c, m - 1), FMul(B[r][m - 1], A[m - 1][c]))

\* an integer small enough for a sum of products of three such values to be exact
SmallInt(e) == e = Zero \/ (e[2] >= 0 /\ BitLen(IAbs(e[1])) + e[2] <= MantissaBits \div 4)

SmallOperands ==
  \A r, c \in Idx(MulDim) :
    SmallInt(args.a[r][c]) /\ SmallInt(args.b[r][c]) /\ SmallInt(args.v[c])

\* C28 as stated: entry (i, j) of A * B is the sum over k of B[i][k] . A[k][j], and
\* (A * B) * v equals B * (A * v), for all A, B and v.
C28_ProductAssociates ==
  Multiplied
    => /\ \A r, c \in Idx(MulDim) : ret.ab[r][c] = SumBAF32(args.a, args.b, r, c, MulDim)
       /\ EqVec(ret.lhs, ret.rhs, MulDim)

\* C28: entry (i, j) of A * B is the f32 sum over k of B[i][k] . A[k][j], each product
\* and partial sum rounded; (A * B) * v equals B * (A * v) when the entries are
\* integers small enough for no operation to round.
C28_ProductRounded ==
  Multiplied
    => /\ \A r, c \in Idx(MulDim) : ret.ab[r][c] = SumBAF32(args.a, args.b, r, c, MulDim)
       /\ SmallOperands
            => /\ \A r, c \in Idx(MulDim) :
                    FEq(ret.ab[r][c], SumBA(args.a, args.b, r, c, MulDim))
               /\ EqVec(ret.lhs, ret.rhs, MulDim)

C28_Witness ==
  /\ call = "Mat3::mul" /\ pc = "done"
  /\ args.a = CountMat(3) /\ args.b[0][1] = One /\ args.b[0][0] = Zero
  /\ args.v = [c \in Idx(3) |-> IF c = 1 THEN FromInt(3) ELSE Zero]
  /\ ret.ab[0][1] = FromInt(5) /\ ret.ab[1][1] = Zero
  /\ ret.lhs[0] = FromInt(15) /\ ret.rhs[0] = FromInt(15)

\* a call of Curve::lerp has returned or panicked
CurveReturned == call = "Curve::lerp" /\ pc = "done"

\* C29: with at least 2 values every factor >= 1 returns the last value and every
\* factor < 0 the first; a curve of one value returns it; an empty curve returns
\* T::default().
C29_CurveEdges ==
  CurveReturned
    => /\ (CurveLen >= 2 /\ ~IsNaN(args.factor) /\ ~FLt(args.factor, One))
            => ret = args.values[CurveLen - 1]
       /\ (CurveLen >= 2 /\ FLt(args.factor, Zero)) => ret = args.values[0]
       /\ CurveLen = 1 => ret = args.values[0]
       /\ CurveLen = 0 => ret = Zero

\* a negative factor whose end index is 1: the clamp makes the first value the result
C29_Witness ==
  /\ CurveReturned /\ CurveLen = 2
  /\ args.factor = NegTiny
  /\ args.values[0] = Zero /\ args.values[1] = FromInt(5)
  /\ AsUsize(FAdd(FMul(NegTiny, One), One)) = Unsigned(1)
  /\ ret = Zero

\* C30: for every curve and every factor Curve::lerp reads only indices below len,
\* so no call panics.
C30_NoPanic == CurveReturned => ret # Panic

=============================================================================
